---- MODULE Spec2Model ----
(***************************************************************************)
(* Model of cool-chic's command-line parsing helpers                       *)
(* (coolchic/enc/utils/parsecli.py) and of the finetuning sweep            *)
(* (coolchic/hypernet/finetune.py).                                        *)
(*                                                                         *)
(* Python strings are sequences of one-character strings, so that split,   *)
(* int(), Path.suffix and Path.stem are computed the way Python computes   *)
(* them.  A call either returns a value or raises; both are kept in a      *)
(* record [status, value] where status is "return" or the exception name.  *)
(***************************************************************************)
EXTENDS Integers, Sequences, FiniteSets, TLC

VARIABLES
    fn,             \* parsecli: the parsing function that was called ("none" before)
    arg,            \* parsecli: its string argument
    ret,            \* parsecli: what the call returned or raised
    config,         \* parsecli: the RunConfig fields get_coding_structure_from_args reads
    cs_ret,         \* parsecli: what get_coding_structure_from_args returned or raised
    dataset,        \* finetune: result of (DATA_DIR / dataset).glob("*.png"), stems in glob order
    n_iterations,   \* finetune: the budget list handed to finetune_all
    from_scratch,   \* finetune: --from_scratch
    pc,             \* finetune: position of the (single) thread of control
    img_idx,        \* finetune: position of the outer loop (1-based)
    itr_idx,        \* finetune: position of the inner loop (1-based)
    max_itr,        \* finetune: preset.all_phases[0].max_itr
    cc_encoder,     \* finetune: the per-image model of the running invocation
    res_metrics,    \* finetune: the list finetune_coolchic returned
    all_finetuned,  \* finetune: the list of one-invocation tables
    finetuned,      \* finetune: the table finetune_all returned to __main__
    csv,            \* finetune: the results file
    err,            \* finetune: the exception that ended the run ("none" if none)
    stages,         \* history: the calls made by the running invocation, in order
    trace           \* history: every step of the sweep, in order

vars == <<fn, arg, ret, config, cs_ret, dataset, n_iterations, from_scratch, pc,
          img_idx, itr_idx, max_itr, cc_encoder, res_metrics, all_finetuned,
          finetuned, csv, err, stages, trace>>

parseVars == <<fn, arg, ret>>
codingVars == <<config, cs_ret>>
sweepVars == <<dataset, n_iterations, from_scratch, pc, img_idx, itr_idx, max_itr,
               cc_encoder, res_metrics, all_finetuned, finetuned, csv, err,
               stages, trace>>

-----------------------------------------------------------------------------
(* Bounds of the model.                                                    *)

MaxLen == 5

MaxImages == 2

MaxBudgets == 2

-----------------------------------------------------------------------------
(* Results of a call.                                                      *)

Return(v) == [status |-> "return", value |-> v]

Raise(e) == [status |-> e, value |-> <<>>]

NotCalled == [status |-> "none", value |-> <<>>]

Raised(r) == r.status \in {"AssertionError", "ValueError"}

-----------------------------------------------------------------------------
(* Python's str primitives.                                                *)

Digits == {"0", "1", "2", "3", "4", "5", "6", "7", "8", "9"}

DigitVal(c) ==
    CASE c = "0" -> 0 [] c = "1" -> 1 [] c = "2" -> 2 [] c = "3" -> 3
      [] c = "4" -> 4 [] c = "5" -> 5 [] c = "6" -> 6 [] c = "7" -> 7
      [] c = "8" -> 8 [] c = "9" -> 9

Whitespace == {" ", "\t", "\n"}

RECURSIVE LStrip(_)
LStrip(s) ==
    IF s # <<>> /\ Head(s) \in Whitespace THEN LStrip(Tail(s)) ELSE s

RECURSIVE RStrip(_)
RStrip(s) ==
    IF s # <<>> /\ s[Len(s)] \in Whitespace
    THEN RStrip(SubSeq(s, 1, Len(s) - 1))
    ELSE s

Strip(s) == RStrip(LStrip(s))

\* The digits of an int() literal: digits, single underscores between them.
IsDigitGroup(s) ==
    /\ s # <<>>
    /\ s[1] \in Digits
    /\ s[Len(s)] \in Digits
    /\ \A i \in 1..Len(s) : s[i] \in Digits \cup {"_"}
    /\ \A i \in 1..(Len(s) - 1) : ~(s[i] = "_" /\ s[i + 1] = "_")

RECURSIVE DecVal(_)
DecVal(s) ==
    IF s = <<>> THEN 0
    ELSE LET c == s[Len(s)]
             front == SubSeq(s, 1, Len(s) - 1)
         IN  IF c = "_" THEN DecVal(front) ELSE DecVal(front) * 10 + DigitVal(c)

\* int(x) for a str x, base 10: surrounding whitespace is ignored, one sign is
\* allowed, anything else raises ValueError.
PyInt(x) ==
    LET s == Strip(x)
        signed == s # <<>> /\ s[1] \in {"+", "-"}
        body == IF signed THEN Tail(s) ELSE s
    IN  IF IsDigitGroup(body)
        THEN Return(IF signed /\ s[1] = "-" THEN 0 - DecVal(body) ELSE DecVal(body))
        ELSE Raise("ValueError")

\* x.split(","): always at least one token; empty tokens are kept.
RECURSIVE Split(_)
Split(s) ==
    IF \A i \in 1..Len(s) : s[i] # ","
    THEN <<s>>
    ELSE LET i == CHOOSE k \in 1..Len(s) :
                      s[k] = "," /\ \A j \in 1..(k - 1) : s[j] # ","
         IN  <<SubSeq(s, 1, i - 1)>> \o Split(SubSeq(s, i + 1, Len(s)))

\* [x for x in toks if x != ""]
RECURSIVE DropEmpty(_)
DropEmpty(toks) ==
    IF toks = <<>> THEN <<>>
    ELSE IF Head(toks) = <<>> THEN DropEmpty(Tail(toks))
         ELSE <<Head(toks)>> \o DropEmpty(Tail(toks))

\* [int(x) for x in toks]: the list, or the first ValueError.
IntList(toks) ==
    IF \E i \in 1..Len(toks) : PyInt(toks[i]).status # "return"
    THEN Raise("ValueError")
    ELSE Return([i \in 1..Len(toks) |-> PyInt(toks[i]).value])

SeqToSet(s) == {s[i] : i \in 1..Len(s)}

-----------------------------------------------------------------------------
(* parsecli.py: the comma-separated arguments.                             *)

\* Variant for C6: the empty tokens are filtered before the count, as the two
\* other helpers do.
_parse_arm_archi_dropping(arm) ==
    LET toks == DropEmpty(Split(arm))
    IN  IF Len(toks) # 2 THEN Raise("AssertionError")
        ELSE LET ints == IntList(toks)
             IN  IF ints.status # "return" THEN ints
                 ELSE Return([dim_arm |-> ints.value[1],
                              n_hidden_layers_arm |-> ints.value[2]])

_parse_arm_archi(arm) ==
    IF Len(Split(arm)) # 2 THEN Raise("AssertionError")
    ELSE LET ints == IntList(Split(arm))
         IN  IF ints.status # "return" THEN ints
             ELSE Return([dim_arm |-> ints.value[1],
                          n_hidden_layers_arm |-> ints.value[2]])

\* Variant for C7: the assertion asks only that 1 is among the values.
_parse_n_ft_per_res_contains(n_ft_per_res) ==
    LET ints == IntList(DropEmpty(Split(n_ft_per_res)))
    IN  IF ints.status # "return" THEN ints
        ELSE IF 1 \notin SeqToSet(ints.value) THEN Raise("AssertionError")
             ELSE Return(ints.value)

\* Variant for C10: the empty tokens are not filtered.
_parse_n_ft_per_res_keeping(n_ft_per_res) ==
    LET ints == IntList(Split(n_ft_per_res))
    IN  IF ints.status # "return" THEN ints
        ELSE IF SeqToSet(ints.value) # {1} THEN Raise("AssertionError")
             ELSE Return(ints.value)

_parse_n_ft_per_res(n_ft_per_res) ==
    LET ints == IntList(DropEmpty(Split(n_ft_per_res)))
    IN  IF ints.status # "return" THEN ints
        ELSE IF SeqToSet(ints.value) # {1} THEN Raise("AssertionError")
             ELSE Return(ints.value)

-----------------------------------------------------------------------------
(* parsecli.py: the coding structure.  A Path is the sequence of its parts; *)
(* Path.suffix and Path.stem read the last part only.                       *)

LowerCase ==
    <<"a", "b", "c", "d", "e", "f", "g", "h", "i", "j", "k", "l", "m",
      "n", "o", "p", "q", "r", "s", "t", "u", "v", "w", "x", "y", "z">>

UpperCase ==
    <<"A", "B", "C", "D", "E", "F", "G", "H", "I", "J", "K", "L", "M",
      "N", "O", "P", "Q", "R", "S", "T", "U", "V", "W", "X", "Y", "Z">>

\* str.upper() and str.lower() of one character.
Upper(c) ==
    IF \E i \in 1..26 : LowerCase[i] = c
    THEN UpperCase[CHOOSE i \in 1..26 : LowerCase[i] = c]
    ELSE c

Lower(c) ==
    IF \E i \in 1..26 : UpperCase[i] = c
    THEN LowerCase[CHOOSE i \in 1..26 : UpperCase[i] = c]
    ELSE c

\* str.capitalize(): first character upper case, the others lower case.
Capitalize(s) ==
    [i \in 1..Len(s) |-> IF i = 1 THEN Upper(s[i]) ELSE Lower(s[i])]

\* Path.name: the final component.
Name(path) == IF path = <<>> THEN <<>> ELSE path[Len(path)]

\* name.rfind(".") + 1, 0 when there is no dot.
RFindDot(name) ==
    IF \E i \in 1..Len(name) : name[i] = "."
    THEN CHOOSE i \in 1..Len(name) :
             name[i] = "." /\ \A j \in (i + 1)..Len(name) : name[j] # "."
    ELSE 0

\* Path.suffix: from the last dot on, unless that dot starts or ends the name.
Suffix(path) ==
    LET name == Name(path)
        i == RFindDot(name)
    IN  IF 1 < i /\ i < Len(name) THEN SubSeq(name, i, Len(name)) ELSE <<>>

\* Path.stem: the name without its suffix.
Stem(path) ==
    LET name == Name(path)
        i == RFindDot(name)
    IN  IF 1 < i /\ i < Len(name) THEN SubSeq(name, 1, i - 1) ELSE name

possible_file_extension ==
    << <<"p", "n", "g">>, <<"j", "p", "e", "g">>, <<"j", "p", "g">>, <<"p", "p", "m">> >>

_is_image(file_path) ==
    \E k \in 1..Len(possible_file_extension) :
        LET ext == possible_file_extension[k]
        IN  \/ Suffix(file_path) = <<".">> \o ext
            \/ Suffix(file_path) = <<".">> \o Capitalize(ext)

MaxPeriod == 255

\* Variant for C2: the second assertion tests intra_period again.
get_coding_structure_from_args_intra_twice(cfg) ==
    LET intra_period == cfg.intra_period
        p_period == cfg.p_period
    IN  IF ~(intra_period >= 0 /\ intra_period <= MaxPeriod)
        THEN Raise("AssertionError")
        ELSE IF ~(intra_period >= 0 /\ intra_period <= MaxPeriod)
        THEN Raise("AssertionError")
        ELSE IF _is_image(cfg.input) /\ ~(intra_period = 0 /\ p_period = 0)
        THEN Raise("AssertionError")
        ELSE Return([intra_period |-> intra_period,
                     p_period |-> p_period,
                     seq_name |-> Stem(cfg.input)])

get_coding_structure_from_args(cfg) ==
    LET intra_period == cfg.intra_period
        p_period == cfg.p_period
    IN  IF ~(intra_period >= 0 /\ intra_period <= MaxPeriod)
        THEN Raise("AssertionError")
        ELSE IF ~(p_period >= 0 /\ p_period <= MaxPeriod)
        THEN Raise("AssertionError")
        ELSE IF _is_image(cfg.input) /\ ~(intra_period = 0 /\ p_period = 0)
        THEN Raise("AssertionError")
        ELSE Return([intra_period |-> intra_period,
                     p_period |-> p_period,
                     seq_name |-> Stem(cfg.input)])

-----------------------------------------------------------------------------
(* The parsing helpers, called on every string over Alphabet of at most    *)
(* MaxLen characters.                                                      *)

Alphabet == {"1", "2", ",", "x", "-"}

Strings == UNION {[1..k -> Alphabet] : k \in 0..MaxLen}

SweepIdle ==
    /\ dataset = <<>> /\ n_iterations = <<>> /\ from_scratch = FALSE
    /\ pc = "idle" /\ img_idx = 1 /\ itr_idx = 1 /\ max_itr = 0 - 1
    /\ cc_encoder = "none" /\ res_metrics = <<>> /\ all_finetuned = <<>>
    /\ finetuned = [returned |-> FALSE, rows |-> <<>>]
    /\ csv = [written |-> FALSE, rows |-> <<>>] /\ err = "none"
    /\ stages = <<>> /\ trace = <<>>

CodingIdle ==
    /\ config = [input |-> <<>>, intra_period |-> 0, p_period |-> 0]
    /\ cs_ret = NotCalled

ParseIdle == fn = "none" /\ arg = <<>> /\ ret = NotCalled

InitParse ==
    /\ fn = "none"
    /\ arg \in Strings
    /\ ret = NotCalled
    /\ CodingIdle
    /\ SweepIdle

CallParseArmArchi ==
    /\ fn = "none"
    /\ fn' = "_parse_arm_archi"
    /\ ret' = _parse_arm_archi(arg)
    /\ UNCHANGED <<arg, codingVars, sweepVars>>

CallParseNFtPerRes ==
    /\ fn = "none"
    /\ fn' = "_parse_n_ft_per_res"
    /\ ret' = _parse_n_ft_per_res(arg)
    /\ UNCHANGED <<arg, codingVars, sweepVars>>

NextParse == CallParseArmArchi \/ CallParseNFtPerRes

SpecParse == InitParse /\ [][NextParse]_vars

-----------------------------------------------------------------------------
(* get_coding_structure_from_args, called on input paths whose extension   *)
(* is an image extension in every letter case or no image extension, with  *)
(* periods inside, on and outside the limits.                              *)

\* Every way of writing ext in upper and lower case letters.
AnyCase(ext) ==
    {e \in [1..Len(ext) -> {ext[i] : i \in 1..Len(ext)} \cup {Upper(ext[i]) : i \in 1..Len(ext)}] :
        \A i \in 1..Len(ext) : e[i] \in {ext[i], Upper(ext[i])}}

ImageExtensions ==
    UNION {AnyCase(possible_file_extension[k]) : k \in 1..Len(possible_file_extension)}

OtherExtensions == { <<"y", "u", "v">>, <<"p", "n", "g", "x">> }

FileStems == { <<"f">>, <<"a", ".", "b">> }

FileNames ==
    {st \o <<".">> \o e : st \in FileStems, e \in ImageExtensions \cup OtherExtensions}
        \cup FileStems

Parents == { <<>>, << <<"d", ".", "p", "n", "g">> >> }

InputPaths == {par \o <<nm>> : par \in Parents, nm \in FileNames}

Periods == {0 - 1, 0, 1, 4, MaxPeriod, MaxPeriod + 1}

InitCoding ==
    /\ config \in [input : InputPaths, intra_period : Periods, p_period : Periods]
    /\ cs_ret = NotCalled
    /\ ParseIdle
    /\ SweepIdle

CallGetCodingStructure ==
    /\ cs_ret = NotCalled
    /\ cs_ret' = get_coding_structure_from_args(config)
    /\ UNCHANGED <<config, parseVars, sweepVars>>

NextCoding == CallGetCodingStructure

SpecCoding == InitCoding /\ [][NextCoding]_vars

-----------------------------------------------------------------------------
(* finetune.py: the sweep of finetune_all over a dataset and a budget list, *)
(* run by __main__.  One thread of control; pc is its position.  The codec  *)
(* model, the training loop, the quantizer and the test routine are         *)
(* external: each is one step that either completes or raises.              *)

\* n_iterations of __main__.
Budgets == <<100, 200, 400, 600, 800, 1000, 1500, 2000, 2500, 3000>>

\* Stems of the *.png files a dataset directory may hold.
Pool == <<"kodim01", "kodim02", "kodim03", "kodim04">>

Images == {Pool[i] : i \in 1..MaxImages}

\* What glob("*.png") may yield: distinct files, in an order the file system chooses.
Globs ==
    {d \in UNION {[1..k -> Images] : k \in 0..MaxImages} :
        \A i, j \in 1..Len(d) : i # j => d[i] # d[j]}

BudgetLists == {SubSeq(Budgets, 1, k) : k \in 0..MaxBudgets}

NoTable == [returned |-> FALSE, rows |-> <<>>]

NoFile == [written |-> FALSE, rows |-> <<>>]

\* Positions inside one call of finetune_one_kodak.
InvocationPcs == {"read_png", "init_model", "load_frame_data", "train", "quantize", "test"}

image == IF img_idx \in 1..Len(dataset) THEN dataset[img_idx] ELSE "-"

Ev(op) == [op |-> op, image |-> image, max_itr |-> max_itr]

\* max_iterations of the last call of coolchic_train.
TrainedWith ==
    LET ks == {k \in 1..Len(trace) : trace[k].op = "coolchic_train"}
    IN  trace[CHOOSE k \in ks : \A l \in ks : l <= k].max_itr

\* pd.concat(tables): the rows of the tables, in list order.
RECURSIVE Concat(_)
Concat(tables) ==
    IF tables = <<>> THEN <<>> ELSE Head(tables) \o Concat(Tail(tables))

InitSweep ==
    /\ dataset \in Globs
    /\ n_iterations \in BudgetLists
    /\ from_scratch \in BOOLEAN
    /\ pc = "main"
    /\ img_idx = 1
    /\ itr_idx = 1
    /\ max_itr = 0 - 1
    /\ cc_encoder = "none"
    /\ res_metrics = <<>>
    /\ all_finetuned = <<>>
    /\ finetuned = NoTable
    /\ csv = NoFile
    /\ err = "none"
    /\ stages = <<>>
    /\ trace = <<>>
    /\ ParseIdle
    /\ CodingIdle

\* finetune_all up to the loop: the config and the hypernet are loaded.
LoadHypernet ==
    /\ pc = "main"
    /\ pc' = "loop"
    /\ trace' = Append(trace, Ev("load_hypernet"))
    /\ UNCHANGED <<dataset, n_iterations, from_scratch, img_idx, itr_idx, max_itr,
                   cc_encoder, res_metrics, all_finetuned, finetuned, csv, err, stages>>
    /\ UNCHANGED <<parseVars, codingVars>>

\* The inner for is exhausted: the outer for takes the next image.
NextImage ==
    /\ pc = "loop"
    /\ img_idx <= Len(dataset)
    /\ itr_idx > Len(n_iterations)
    /\ img_idx' = img_idx + 1
    /\ itr_idx' = 1
    /\ UNCHANGED <<dataset, n_iterations, from_scratch, pc, max_itr, cc_encoder,
                   res_metrics, all_finetuned, finetuned, csv, err, stages, trace>>
    /\ UNCHANGED <<parseVars, codingVars>>

\* Variant for C8: max_itr is overridden for the first budget of an image only.
SetMaxItrStale ==
    /\ pc = "loop"
    /\ img_idx <= Len(dataset)
    /\ itr_idx <= Len(n_iterations)
    /\ max_itr' = IF itr_idx = 1 THEN n_iterations[itr_idx] ELSE max_itr
    /\ pc' = "read_png"
    /\ stages' = <<>>
    /\ trace' = Append(trace, [op |-> "set_max_itr", image |-> image, max_itr |-> max_itr'])
    /\ UNCHANGED <<dataset, n_iterations, from_scratch, img_idx, itr_idx, cc_encoder,
                   res_metrics, all_finetuned, finetuned, csv, err>>
    /\ UNCHANGED <<parseVars, codingVars>>

\* Body of the inner for, up to the call of finetune_one_kodak.
SetMaxItr ==
    /\ pc = "loop"
    /\ img_idx <= Len(dataset)
    /\ itr_idx <= Len(n_iterations)
    /\ max_itr' = n_iterations[itr_idx]
    /\ pc' = "read_png"
    /\ stages' = <<>>
    /\ trace' = Append(trace, [op |-> "set_max_itr", image |-> image, max_itr |-> max_itr'])
    /\ UNCHANGED <<dataset, n_iterations, from_scratch, img_idx, itr_idx, cc_encoder,
                   res_metrics, all_finetuned, finetuned, csv, err>>
    /\ UNCHANGED <<parseVars, codingVars>>

\* finetune_one_kodak: the image is read to size the model or to feed the hypernet.
ReadPng ==
    /\ pc = "read_png"
    /\ pc' = "init_model"
    /\ stages' = Append(stages, "read_png")
    /\ trace' = Append(trace, Ev("read_png"))
    /\ UNCHANGED <<dataset, n_iterations, from_scratch, img_idx, itr_idx, max_itr,
                   cc_encoder, res_metrics, all_finetuned, finetuned, csv, err>>
    /\ UNCHANGED <<parseVars, codingVars>>

\* finetune_one_kodak: a fresh CoolChicEncoder, or the one the hypernet predicts.
InitModel ==
    /\ pc = "init_model"
    /\ pc' = "load_frame_data"
    /\ cc_encoder' = IF from_scratch THEN "fresh" ELSE "predicted"
    /\ stages' = Append(stages, "init_model")
    /\ trace' = Append(trace, Ev("init_model"))
    /\ UNCHANGED <<dataset, n_iterations, from_scratch, img_idx, itr_idx, max_itr,
                   res_metrics, all_finetuned, finetuned, csv, err>>
    /\ UNCHANGED <<parseVars, codingVars>>

\* finetune_coolchic: the frame is loaded from the file and moved to the device.
LoadFrameData ==
    /\ pc = "load_frame_data"
    /\ pc' = "train"
    /\ stages' = Append(stages, "load_frame_data_from_file")
    /\ trace' = Append(trace, Ev("load_frame_data_from_file"))
    /\ UNCHANGED <<dataset, n_iterations, from_scratch, img_idx, itr_idx, max_itr,
                   cc_encoder, res_metrics, all_finetuned, finetuned, csv, err>>
    /\ UNCHANGED <<parseVars, codingVars>>

\* finetune_coolchic: one training phase of at most all_phases[0].max_itr
\* iterations; stopping early on patience is a normal return.
Train ==
    /\ pc = "train"
    /\ pc' = "quantize"
    /\ \E early_stop \in BOOLEAN :
           cc_encoder' = IF early_stop THEN "early_stopped" ELSE "trained"
    /\ stages' = Append(stages, "coolchic_train")
    /\ trace' = Append(trace, Ev("coolchic_train"))
    /\ UNCHANGED <<dataset, n_iterations, from_scratch, img_idx, itr_idx, max_itr,
                   res_metrics, all_finetuned, finetuned, csv, err>>
    /\ UNCHANGED <<parseVars, codingVars>>

\* Variant for C5: the trained model is handed to test unquantized.
QuantizeSkipped ==
    /\ pc = "quantize"
    /\ pc' = "test"
    /\ stages' = Append(stages, "quantize_model")
    /\ trace' = Append(trace, Ev("quantize_model"))
    /\ UNCHANGED <<dataset, n_iterations, from_scratch, img_idx, itr_idx, max_itr,
                   cc_encoder, res_metrics, all_finetuned, finetuned, csv, err>>
    /\ UNCHANGED <<parseVars, codingVars>>

\* finetune_coolchic: quantize_model.
Quantize ==
    /\ pc = "quantize"
    /\ pc' = "test"
    /\ cc_encoder' = "quantized"
    /\ stages' = Append(stages, "quantize_model")
    /\ trace' = Append(trace, Ev("quantize_model"))
    /\ UNCHANGED <<dataset, n_iterations, from_scratch, img_idx, itr_idx, max_itr,
                   res_metrics, all_finetuned, finetuned, csv, err>>
    /\ UNCHANGED <<parseVars, codingVars>>

\* Variant for C3: an in-training validation record is returned as well.
ReturnedLogsAll(metrics) == <<metrics, metrics>>

\* "We only return the last validation log": return [metrics].
ReturnedLogs(metrics) == <<metrics>>

\* finetune_coolchic: test, log_to_results, return.  A record holds the sequence
\* name; max_iterations and model remember what it was measured on.
Evaluate ==
    /\ pc = "test"
    /\ pc' = "release"
    /\ res_metrics' = ReturnedLogs([seq_name |-> image,
                                    max_iterations |-> TrainedWith,
                                    model |-> cc_encoder])
    /\ stages' = Append(stages, "test")
    /\ trace' = Append(trace, Ev("test"))
    /\ UNCHANGED <<dataset, n_iterations, from_scratch, img_idx, itr_idx, max_itr,
                   cc_encoder, all_finetuned, finetuned, csv, err>>
    /\ UNCHANGED <<parseVars, codingVars>>

\* finetune_one_kodak: del cc_encoder, return res_metrics.
Release ==
    /\ pc = "release"
    /\ pc' = "append"
    /\ cc_encoder' = "none"
    /\ stages' = Append(stages, "del")
    /\ trace' = Append(trace, Ev("del"))
    /\ UNCHANGED <<dataset, n_iterations, from_scratch, img_idx, itr_idx, max_itr,
                   res_metrics, all_finetuned, finetuned, csv, err>>
    /\ UNCHANGED <<parseVars, codingVars>>

\* End of the body of the inner for: the table of the invocation is appended,
\* the device cache is emptied and garbage is collected.
AppendTable ==
    /\ pc = "append"
    /\ pc' = "loop"
    /\ all_finetuned' = Append(all_finetuned, res_metrics)
    /\ itr_idx' = itr_idx + 1
    /\ trace' = Append(trace, Ev("gc_collect"))
    /\ UNCHANGED <<dataset, n_iterations, from_scratch, img_idx, max_itr, cc_encoder,
                   res_metrics, finetuned, csv, err, stages>>
    /\ UNCHANGED <<parseVars, codingVars>>

\* Variant for C9: concatenating no table yields the empty table.
ConcatAllowingEmpty ==
    /\ pc = "loop"
    /\ img_idx > Len(dataset)
    /\ pc' = "returned"
    /\ finetuned' = [returned |-> TRUE, rows |-> Concat(all_finetuned)]
    /\ trace' = Append(trace, Ev("concat"))
    /\ UNCHANGED <<dataset, n_iterations, from_scratch, img_idx, itr_idx, max_itr,
                   cc_encoder, res_metrics, all_finetuned, csv, err, stages>>
    /\ UNCHANGED <<parseVars, codingVars>>

\* The outer for is exhausted: return pd.concat(all_finetuned), which raises
\* ValueError ("No objects to concatenate") on an empty list.
ConcatTables ==
    /\ pc = "loop"
    /\ img_idx > Len(dataset)
    /\ trace' = Append(trace, Ev("concat"))
    /\ IF all_finetuned = <<>>
       THEN /\ pc' = "aborted"
            /\ err' = "ValueError"
            /\ UNCHANGED finetuned
       ELSE /\ pc' = "returned"
            /\ finetuned' = [returned |-> TRUE, rows |-> Concat(all_finetuned)]
            /\ UNCHANGED err
    /\ UNCHANGED <<dataset, n_iterations, from_scratch, img_idx, itr_idx, max_itr,
                   cc_encoder, res_metrics, all_finetuned, csv, stages>>
    /\ UNCHANGED <<parseVars, codingVars>>

Anchor == IF from_scratch THEN "coolchic-training" ELSE "CoolchicWholeNet-finetuning"

\* __main__: the anchor column is added and the table is written with to_csv.
SaveCsv ==
    /\ pc = "returned"
    /\ pc' = "saved"
    /\ csv' = [written |-> TRUE,
               rows |-> [k \in 1..Len(finetuned.rows) |->
                            [seq_name |-> finetuned.rows[k].seq_name,
                             max_iterations |-> finetuned.rows[k].max_iterations,
                             model |-> finetuned.rows[k].model,
                             anchor |-> Anchor]]]
    /\ trace' = Append(trace, Ev("to_csv"))
    /\ UNCHANGED <<dataset, n_iterations, from_scratch, img_idx, itr_idx, max_itr,
                   cc_encoder, res_metrics, all_finetuned, finetuned, err, stages>>
    /\ UNCHANGED <<parseVars, codingVars>>

\* Variant for C4: the failure is caught per pair and the sweep goes on.
StageRaisesIsolated ==
    /\ pc \in InvocationPcs \cup {"main"}
    /\ pc' = IF pc = "main" THEN "aborted" ELSE "loop"
    /\ err' = "RuntimeError"
    /\ itr_idx' = IF pc = "main" THEN itr_idx ELSE itr_idx + 1
    /\ cc_encoder' = "none"
    /\ trace' = Append(trace, Ev("raise"))
    /\ UNCHANGED <<dataset, n_iterations, from_scratch, img_idx, max_itr,
                   res_metrics, all_finetuned, finetuned, csv, stages>>
    /\ UNCHANGED <<parseVars, codingVars>>

\* A call made by finetune_all or by an invocation raises.  Nothing catches it:
\* the frames of finetune_coolchic, finetune_one_kodak and finetune_all are
\* unwound and the process ends.
StageRaises ==
    /\ pc \in InvocationPcs \cup {"main"}
    /\ pc' = "aborted"
    /\ err' = "RuntimeError"
    /\ trace' = Append(trace, Ev("raise"))
    /\ UNCHANGED <<dataset, n_iterations, from_scratch, img_idx, itr_idx, max_itr,
                   cc_encoder, res_metrics, all_finetuned, finetuned, csv, stages>>
    /\ UNCHANGED <<parseVars, codingVars>>

NextSweep ==
    \/ LoadHypernet
    \/ NextImage
    \/ SetMaxItr
    \/ ReadPng
    \/ InitModel
    \/ LoadFrameData
    \/ Train
    \/ Quantize
    \/ Evaluate
    \/ Release
    \/ AppendTable
    \/ ConcatTables
    \/ SaveCsv
    \/ StageRaises

SpecSweep == InitSweep /\ [][NextSweep]_vars

-----------------------------------------------------------------------------
(* Vocabulary of the claims about the sweep.                               *)

NImages == Len(dataset)

NBudgets == Len(n_iterations)

\* The k-th (image, budget) pair of an image-major sweep, k from 1.
PairImage(k) == dataset[((k - 1) \div NBudgets) + 1]

PairBudget(k) == n_iterations[((k - 1) % NBudgets) + 1]

\* Positions of the steps of the sweep that are calls of op.
Steps(op) == {k \in 1..Len(trace) : trace[k].op = op}

IsPrefix(s, t) == Len(s) <= Len(t) /\ s = SubSeq(t, 1, Len(s))

\* C3: the table a completed sweep returns has N x len(budgets) rows, one per
\* invocation, and each (image, budget) pair accounts for exactly one row.
C3_OneRowPerPair ==
    finetuned.returned =>
        /\ Len(finetuned.rows) = NImages * NBudgets
        /\ Len(finetuned.rows) = Cardinality(Steps("test"))
        /\ \A i \in 1..NImages : \A j \in 1..NBudgets :
               Cardinality({k \in 1..Len(finetuned.rows) :
                               /\ finetuned.rows[k].seq_name = dataset[i]
                               /\ finetuned.rows[k].max_iterations = n_iterations[j]}) = 1

C3_Witness ==
    /\ finetuned.returned
    /\ NImages = 2
    /\ NBudgets = 2
    /\ Len(finetuned.rows) = 4

\* C4: a raise in a stage of an invocation is the last step of the run: no later
\* pair is processed, finetune_all returns no table and no results file is written.
C4_RaiseAbortsSweep ==
    \A k \in Steps("raise") :
        /\ k = Len(trace)
        /\ pc = "aborted"
        /\ ~finetuned.returned
        /\ ~csv.written

\* The second image's training raises after the first image's rows were collected.
C4_Witness ==
    /\ pc = "aborted"
    /\ err = "RuntimeError"
    /\ img_idx = 2
    /\ Len(all_finetuned) = 2
    /\ trace[Len(trace) - 1].op = "load_frame_data_from_file"
    /\ ~csv.written

\* The stage of the design each call of an invocation belongs to.  read_png
\* reads the pixel data from disk (Load) and serves only to build the model
\* (Initialize): r is the stage it is counted in.
StageOf(call, r) ==
    CASE call = "read_png" -> r
      [] call = "init_model" -> "Initialize"
      [] call = "load_frame_data_from_file" -> "Load"
      [] call = "coolchic_train" -> "Train"
      [] call = "quantize_model" -> "Quantize"
      [] call = "test" -> "Evaluate"
      [] call = "del" -> "Release"

\* Consecutive calls of one stage are one occurrence of the stage.
RECURSIVE Occurrences(_)
Occurrences(s) ==
    IF Len(s) <= 1 THEN s
    ELSE IF s[1] = s[2] THEN Occurrences(Tail(s))
         ELSE <<s[1]>> \o Occurrences(Tail(s))

DesignOrder == <<"Load", "Initialize", "Train", "Quantize", "Evaluate", "Release">>

CodeOrder ==
    <<"read_png", "init_model", "load_frame_data_from_file", "coolchic_train",
      "quantize_model", "test", "del">>

\* C5 as stated: within one invocation the stages Load, Initialize, Train,
\* Quantize, Evaluate, Release occur once each, in that order (whichever of
\* Load and Initialize read_png is counted in).
C5_StagesOnceInDesignOrder ==
    \E r \in {"Load", "Initialize"} :
        IsPrefix(Occurrences([k \in 1..Len(stages) |-> StageOf(stages[k], r)]), DesignOrder)

\* C5, amended: within one invocation the calls are read_png, model
\* initialisation, load_frame_data_from_file, coolchic_train, quantize_model,
\* test, del, once each and in that order (the image is loaded twice, before and
\* after the model is initialised), and every metrics record is measured on the
\* quantized model, before the model is released.
C5_CallsOnceInCodeOrder ==
    /\ IsPrefix(stages, CodeOrder)
    /\ \A k \in 1..Len(res_metrics) : res_metrics[k].model = "quantized"
    /\ \A k \in Steps("test") : trace[k - 1].op = "quantize_model"
    /\ (pc = "release") => (cc_encoder = "quantized" /\ res_metrics # <<>>)

C5_Witness ==
    /\ stages = CodeOrder
    /\ res_metrics # <<>>
    /\ cc_encoder = "none"
    /\ Len(all_finetuned) = 1

\* C8: the sweep is sequential and image-major: the j-th invocation is that of
\* the j-th pair in image-major order, max_itr is set to its budget right before
\* it starts and it trains with that budget, an invocation starts only after
\* the one before it has ended and memory was reclaimed, and the tables are
\* appended in the same order.
C8_SequentialImageMajor ==
    /\ \A k \in Steps("set_max_itr") :
           LET j == Cardinality({l \in Steps("set_max_itr") : l <= k})
           IN  /\ trace[k].image = PairImage(j)
               /\ trace[k].max_itr = PairBudget(j)
               /\ trace[k - 1].op \in {"load_hypernet", "gc_collect"}
               /\ k < Len(trace) => trace[k + 1].op \in {"read_png", "raise"}
    /\ \A k \in Steps("coolchic_train") :
           LET j == Cardinality({l \in Steps("coolchic_train") : l <= k})
           IN  /\ trace[k].image = PairImage(j)
               /\ trace[k].max_itr = PairBudget(j)
    /\ \A j \in 1..Len(all_finetuned) :
           \A k \in 1..Len(all_finetuned[j]) :
               /\ all_finetuned[j][k].seq_name = PairImage(j)
               /\ all_finetuned[j][k].max_iterations = PairBudget(j)
    /\ Len(all_finetuned) = Cardinality(Steps("gc_collect"))

C8_Witness ==
    /\ pc = "train"
    /\ img_idx = 2
    /\ itr_idx = 2
    /\ max_itr = 200
    /\ Len(all_finetuned) = 3
    /\ all_finetuned[3][1].max_iterations = 100

\* C9: a sweep that makes no invocation (no image, or an empty budget list)
\* returns no table, not an empty one: concatenating the empty list raises, the
\* run ends with that error and no results file is written.
C9_EmptySweepRaises ==
    (NImages * NBudgets = 0) =>
        /\ ~finetuned.returned
        /\ ~csv.written
        /\ Steps("concat") # {} => (pc = "aborted" /\ err = "ValueError")

C9_Witness ==
    /\ NImages = 2
    /\ NBudgets = 0
    /\ Steps("concat") # {}
    /\ err = "ValueError"

C9_WitnessNoImage ==
    /\ NImages = 0
    /\ NBudgets = 2
    /\ pc = "aborted"
    /\ err = "ValueError"

-----------------------------------------------------------------------------
(* Vocabulary of the claims about the coding structure.                    *)

\* The extension of the file, in lower case: what follows the last dot of the name.
ExtensionLower(path) ==
    LET sfx == Suffix(path)
    IN  [i \in 1..(Len(sfx) - 1) |-> Lower(sfx[i + 1])]

HasImageExtension(path) ==
    \E k \in 1..Len(possible_file_extension) :
        ExtensionLower(path) = possible_file_extension[k]

InLimits(n) == 0 <= n /\ n <= 255

\* C1: for an input path whose extension is png, jpeg, jpg or ppm in any letter
\* case, the build raises unless intra_period = 0 and p_period = 0, and returns
\* when both are 0.
C1_ImageNeedsZeroPeriods ==
    (cs_ret # NotCalled /\ HasImageExtension(config.input)) =>
        (cs_ret.status = "return" <=> (config.intra_period = 0 /\ config.p_period = 0))

\* C2: the build raises whenever a period is outside [0, 255], whatever the
\* input; for an input without an image extension every pair of periods inside
\* [0, 255] is accepted, and the dict holds the two periods and the file's stem.
C2_PeriodLimits ==
    cs_ret # NotCalled =>
        /\ ~(InLimits(config.intra_period) /\ InLimits(config.p_period)) => Raised(cs_ret)
        /\ (InLimits(config.intra_period) /\ InLimits(config.p_period)
                /\ ~HasImageExtension(config.input)) =>
                /\ cs_ret.status = "return"
                /\ cs_ret.value = [intra_period |-> config.intra_period,
                                   p_period |-> config.p_period,
                                   seq_name |-> Stem(config.input)]

C2_Witness ==
    /\ config = [input |-> << <<"a", ".", "b", ".", "y", "u", "v">> >>,
                 intra_period |-> 255, p_period |-> 4]
    /\ cs_ret = Return([intra_period |-> 255, p_period |-> 4, seq_name |-> <<"a", ".", "b">>])

C2_WitnessOutside ==
    /\ config.intra_period = 0
    /\ config.p_period = 256
    /\ HasImageExtension(config.input)
    /\ cs_ret.status = "AssertionError"

-----------------------------------------------------------------------------
(* Vocabulary of the claims about the parsing helpers.                     *)

CommaCount(s) == Cardinality({i \in 1..Len(s) : s[i] = ","})

\* The text before the first comma and the text after it.
BeforeComma(s) ==
    SubSeq(s, 1, (CHOOSE k \in 1..Len(s) : s[k] = "," /\ \A j \in 1..(k - 1) : s[j] # ",") - 1)

AfterComma(s) ==
    SubSeq(s, (CHOOSE k \in 1..Len(s) : s[k] = "," /\ \A j \in 1..(k - 1) : s[j] # ",") + 1, Len(s))

IntParseable(tok) == PyInt(tok).status = "return"

TwoIntTokens(s) ==
    /\ CommaCount(s) = 1
    /\ IntParseable(BeforeComma(s))
    /\ IntParseable(AfterComma(s))

\* C6: _parse_arm_archi returns {dim_arm, n_hidden_layers_arm}, the two values in
\* input order, exactly when the string holds one comma with an integer on each
\* side of it; every other string raises.
C6_ArmArchi ==
    fn = "_parse_arm_archi" =>
        IF TwoIntTokens(arg)
        THEN /\ ret.status = "return"
             /\ ret.value = [dim_arm |-> PyInt(BeforeComma(arg)).value,
                             n_hidden_layers_arm |-> PyInt(AfterComma(arg)).value]
        ELSE Raised(ret)

\* "12,-1" is parsed into 12 and -1, and "8,", ",", "1,2,1", "1" and "1,x" all
\* raise (each is one state; the witness is the first).
C6_Witness ==
    /\ fn = "_parse_arm_archi"
    /\ arg = <<"1", "2", ",", "-", "1">>
    /\ ret = Return([dim_arm |-> 12, n_hidden_layers_arm |-> 0 - 1])

C6_WitnessThreeTokens ==
    /\ fn = "_parse_arm_archi"
    /\ arg = <<"1", ",", "2", ",", "1">>
    /\ ret.status = "AssertionError"

C6_WitnessEmptyToken ==
    /\ fn = "_parse_arm_archi"
    /\ arg = <<"2", ",">>
    /\ ret.status = "ValueError"

Tokens(s) == Split(s)

\* C7: _parse_n_ft_per_res raises as soon as one parsed value differs from 1, and
\* for k >= 1 comma-separated tokens "1" it returns the list of k ones.
C7_NFtPerRes ==
    fn = "_parse_n_ft_per_res" =>
        /\ (\E i \in 1..Len(Tokens(arg)) :
                /\ IntParseable(Tokens(arg)[i])
                /\ PyInt(Tokens(arg)[i]).value # 1) => Raised(ret)
        /\ (\A i \in 1..Len(Tokens(arg)) : Tokens(arg)[i] = <<"1">>) =>
                /\ ret.status = "return"
                /\ ret.value = [i \in 1..(CommaCount(arg) + 1) |-> 1]

C7_Witness ==
    /\ fn = "_parse_n_ft_per_res"
    /\ arg = <<"1", ",", "1", ",", "1">>
    /\ ret = Return(<<1, 1, 1>>)

C7_WitnessRejected ==
    /\ fn = "_parse_n_ft_per_res"
    /\ arg = <<"1", ",", "2", ",", "1">>
    /\ ret.status = "AssertionError"

HasNonEmptyToken(s) == \E i \in 1..Len(s) : s[i] # ","

OnesAndCommas(s) == \A i \in 1..Len(s) : s[i] \in {"1", ","}

\* C10: _parse_n_ft_per_res drops the empty tokens before it checks: a string
\* with no non-empty token raises instead of yielding the empty list, and ones
\* separated by any number of commas are accepted and yield only the ones.
C10_EmptyTokens ==
    fn = "_parse_n_ft_per_res" =>
        /\ ~HasNonEmptyToken(arg) => ret.status = "AssertionError"
        /\ (HasNonEmptyToken(arg) /\ OnesAndCommas(arg)
                /\ \A i \in 1..(Len(arg) - 1) : ~(arg[i] = "1" /\ arg[i + 1] = "1")) =>
                /\ ret.status = "return"
                /\ ret.value = [i \in 1..Cardinality({j \in 1..Len(arg) : arg[j] = "1"}) |-> 1]

C10_Witness ==
    /\ fn = "_parse_n_ft_per_res"
    /\ arg = <<"1", ",", ",", "1">>
    /\ ret = Return(<<1, 1>>)

C10_WitnessNoToken ==
    /\ fn = "_parse_n_ft_per_res"
    /\ arg = <<",">>
    /\ ret.status = "AssertionError"

====
